---------------------------- MODULE Spec2Model ----------------------------
(***************************************************************************)
(* A model of src/config.py, the kitty "config" kitten: the selection      *)
(* state CmdArgs and its resolution, the table formatter, the mapping      *)
(* differ, the option differ and the report assembler debug_config.        *)
(*                                                                         *)
(* Python strings are sequences of character codes, so that lengths,       *)
(* ordering, the regular expressions and the escape sequences of the       *)
(* source are computed and not assumed.  Python's True / False / None are  *)
(* the strings "True" / "False" / "None".                                  *)
(***************************************************************************)
EXTENDS Integers, Sequences, FiniteSets

VARIABLES
    cmdArgs,     \* the module-global CmdArgs object (config.py:149)
    action2key,  \* the module-global reverse index (config.py:32)
    pc,          \* where the entry point main / handle_result stands
    runs,        \* how many times the entry point has been invoked
    opts,        \* the options object handed to the latest debug_config
    host,        \* what the latest debug_config found on the host
    report,      \* what the latest debug_config returned (or raised)
    table,       \* the latest formatTable call: its input and its result
    sorting      \* the latest sort of triggers: its input and its result

vars == <<cmdArgs, action2key, pc, runs, opts, host, report, table, sorting>>

-----------------------------------------------------------------------------
(* Python values *)

PyTrue  == "True"
PyFalse == "False"
PyNone  == "None"
PyBool(b) == IF b THEN PyTrue ELSE PyFalse

\* Python truthiness of a flag value: None and False are falsy.
Truthy(x) == x = PyTrue

-----------------------------------------------------------------------------
(* Strings: a Python str is the sequence of the codes of its characters *)

\* The string literals of config.py.  link_id only numbers the hyperlinks of
\* a report: every link is written with the digits of the first id, 2.
Lit ==
    [ALL |-> \* 'ALL'
        <<65,76,76>>,
     DIFF_of |-> \* 'DIFF of'
        <<68,73,70,70,32,111,102>>,
     osc8 |-> \* '\x1b]8;'
        <<27,93,56,59>>,
     st |-> \* '\x1b\\'
        <<27,92>>,
     id |-> \* 'id='
        <<105,100,61>>,
     link_end |-> \* '\x1b]8;;\x1b\\'
        <<27,93,56,59,59,27,92>>,
     link_id |->
        <<50>>,
     url_actions |-> \* 'https://sw.kovidgoyal.net/kitty/actions/'
        <<104,116,116,112,115,58,47,47,115,119,46,107,111,118,105,100,103,111,121,97,108,46,110,101,116,47,107,105,116,116,121,47,97,99,116,105,111,110,115,47>>,
     url_conf |-> \* 'https://sw.kovidgoyal.net/kitty/conf/'
        <<104,116,116,112,115,58,47,47,115,119,46,107,111,118,105,100,103,111,121,97,108,46,110,101,116,47,107,105,116,116,121,47,99,111,110,102,47>>,
     frag_action |-> \* '#action-'
        <<35,97,99,116,105,111,110,45>>,
     frag_opt |-> \* '#opt-kitty.'
        <<35,111,112,116,45,107,105,116,116,121,46>>,
     zzz |-> \* ' zzz '
        <<32,122,122,122,32>>,
     flag_A |-> \* '  A  '
        <<32,32,65,32,32>>,
     flag_C |-> \* '  C  '
        <<32,32,67,32,32>>,
     flag_R |-> \* '  -  '
        <<32,32,45,32,32>>,
     flag_no |-> \* '     '
        <<32,32,32,32,32>>,
     orig_open |-> \* '  \t('
        <<32,32,9,40>>,
     orig_close |-> \* ')'
        <<41>>,
     colon |-> \* ':'
        <<58>>,
     keyboard_shortcuts |-> \* 'keyboard shortcuts'
        <<107,101,121,98,111,97,114,100,32,115,104,111,114,116,99,117,116,115>>,
     mouse_actions |-> \* 'mouse actions'
        <<109,111,117,115,101,32,97,99,116,105,111,110,115>>,
     url_keys |-> \* 'https://sw.kovidgoyal.net/kitty/conf/#keyboard-shortcuts'
        <<104,116,116,112,115,58,47,47,115,119,46,107,111,118,105,100,103,111,121,97,108,46,110,101,116,47,107,105,116,116,121,47,99,111,110,102,47,35,107,101,121,98,111,97,114,100,45,115,104,111,114,116,99,117,116,115>>,
     url_mouse |-> \* 'https://sw.kovidgoyal.net/kitty/conf/#mouse-actions'
        <<104,116,116,112,115,58,47,47,115,119,46,107,111,118,105,100,103,111,121,97,108,46,110,101,116,47,107,105,116,116,121,47,99,111,110,102,47,35,109,111,117,115,101,45,97,99,116,105,111,110,115>>,
     kitty_mod |-> \* 'kitty_mod'
        <<107,105,116,116,121,95,109,111,100>>,
     map |-> \* 'map'
        <<109,97,112>>,
     symbol_map |-> \* 'symbol_map'
        <<115,121,109,98,111,108,95,109,97,112>>,
     modify_font |-> \* 'modify_font'
        <<109,111,100,105,102,121,95,102,111,110,116>>,
     keymap |-> \* 'keymap'
        <<107,101,121,109,97,112>>,
     sequence_map |-> \* 'sequence_map'
        <<115,101,113,117,101,110,99,101,95,109,97,112>>,
     mousemap |-> \* 'mousemap'
        <<109,111,117,115,101,109,97,112>>,
     mouse_map |-> \* 'mouse_map'
        <<109,111,117,115,101,95,109,97,112>>,
     config_options |-> \* ' config options:'
        <<32,99,111,110,102,105,103,32,111,112,116,105,111,110,115,58>>,
     colors |-> \* ' colors'
        <<32,99,111,108,111,114,115>>,
     indent10 |-> \* '          '
        <<32,32,32,32,32,32,32,32,32,32>>,
     two_spaces |-> \* '  '
        <<32,32>>,
     available_actions |-> \* ' available actions:'
        <<32,97,118,97,105,108,97,98,108,101,32,97,99,116,105,111,110,115,58>>,
     indent7 |-> \* '       '
        <<32,32,32,32,32,32,32>>,
     nl_indent7 |-> \* '\n       '
        <<10,32,32,32,32,32,32,32>>,
     indent3 |-> \* '   '
        <<32,32,32>>,
     running_under |-> \* 'Running under:'
        <<82,117,110,110,105,110,103,32,117,110,100,101,114,58>>,
     Wayland |-> \* 'Wayland'
        <<87,97,121,108,97,110,100>>,
     X11 |-> \* 'X11'
        <<88,49,49>>,
     Frozen |-> \* 'Frozen:'
        <<70,114,111,122,101,110,58>>,
     True |-> \* 'True'
        <<84,114,117,101>>,
     False |-> \* 'False'
        <<70,97,108,115,101>>,
     Paths |-> \* 'Paths:'
        <<80,97,116,104,115,58>>,
     p_kitty |-> \* '  kitty:'
        <<32,32,107,105,116,116,121,58>>,
     p_base |-> \* '  base dir:'
        <<32,32,98,97,115,101,32,100,105,114,58>>,
     p_ext |-> \* '  extensions dir:'
        <<32,32,101,120,116,101,110,115,105,111,110,115,32,100,105,114,58>>,
     p_shell |-> \* '  system shell:'
        <<32,32,115,121,115,116,101,109,32,115,104,101,108,108,58>>,
     loaded_files |-> \* 'Loaded config files:'
        <<76,111,97,100,101,100,32,99,111,110,102,105,103,32,102,105,108,101,115,58>>,
     loaded_overrides |-> \* 'Loaded config overrides:'
        <<76,111,97,100,101,100,32,99,111,110,102,105,103,32,111,118,101,114,114,105,100,101,115,58>>,
     nl_two |-> \* '\n  '
        <<10,32,32>>,
     important_env |-> \* 'Important environment variables seen by the kitty process:'
        <<73,109,112,111,114,116,97,110,116,32,101,110,118,105,114,111,110,109,101,110,116,32,118,97,114,105,97,98,108,101,115,32,115,101,101,110,32,98,121,32,116,104,101,32,107,105,116,116,121,32,112,114,111,99,101,115,115,58>>,
     LC_ |-> \* 'LC_'
        <<76,67,95>>,
     XDG_ |-> \* 'XDG_'
        <<88,68,71,95>>]

\* The strings of the host's data: option names and values, the triggers'
\* human_repr, action strings and summaries, paths, the environment, the
\* text of /etc/issue and of /etc/lsb-release, the attributes of IssueData.
Host ==
    [seq |-> \* ' > '
        <<32,62,32>>,
     background |-> \* 'background'
        <<98,97,99,107,103,114,111,117,110,100>>,
     font_size |-> \* 'font_size'
        <<102,111,110,116,95,115,105,122,101>>,
     bg_reset |-> \* '49'
        <<52,57>>,
     next_tab |-> \* 'next_tab'
        <<110,101,120,116,95,116,97,98>>,
     previous_tab |-> \* 'previous_tab'
        <<112,114,101,118,105,111,117,115,95,116,97,98>>,
     goto_tab |-> \* 'goto_tab'
        <<103,111,116,111,95,116,97,98>>,
     goto_tab_1 |-> \* 'goto_tab 1'
        <<103,111,116,111,95,116,97,98,32,49>>,
     mouse_selection |-> \* 'mouse_selection'
        <<109,111,117,115,101,95,115,101,108,101,99,116,105,111,110>>,
     mouse_selection_normal |-> \* 'mouse_selection normal'
        <<109,111,117,115,101,95,115,101,108,101,99,116,105,111,110,32,110,111,114,109,97,108>>,
     mouse_selection_extend |-> \* 'mouse_selection extend'
        <<109,111,117,115,101,95,115,101,108,101,99,116,105,111,110,32,101,120,116,101,110,100>>,
     tab |-> \* 'tab'
        <<116,97,98>>,
     mouse |-> \* 'mouse'
        <<109,111,117,115,101>>,
     doc_goto |-> \* 'Go to the specified tab'
        <<71,111,32,116,111,32,116,104,101,32,115,112,101,99,105,102,105,101,100,32,116,97,98>>,
     doc_next |-> \* 'Make the next tab active'
        <<77,97,107,101,32,116,104,101,32,110,101,120,116,32,116,97,98,32,97,99,116,105,118,101>>,
     doc_prev |-> \* 'Make the previous tab active'
        <<77,97,107,101,32,116,104,101,32,112,114,101,118,105,111,117,115,32,116,97,98,32,97,99,116,105,118,101>>,
     doc_mouse |-> \* 'Manipulate the selection'
        <<77,97,110,105,112,117,108,97,116,101,32,116,104,101,32,115,101,108,101,99,116,105,111,110>>,
     k_a |-> \* 'a'
        <<97>>,
     k_b |-> \* 'b'
        <<98>>,
     k_ctrl_a |-> \* 'ctrl+a'
        <<99,116,114,108,43,97>>,
     k_shift_a |-> \* 'shift+a'
        <<115,104,105,102,116,43,97>>,
     k_ctrl_b |-> \* 'ctrl+b'
        <<99,116,114,108,43,98>>,
     m_left |-> \* 'left press grabbed'
        <<108,101,102,116,32,112,114,101,115,115,32,103,114,97,98,98,101,100>>,
     m_ctrl_left |-> \* 'ctrl+left press grabbed'
        <<99,116,114,108,43,108,101,102,116,32,112,114,101,115,115,32,103,114,97,98,98,101,100>>,
     m_shift_left |-> \* 'shift+left press grabbed'
        <<115,104,105,102,116,43,108,101,102,116,32,112,114,101,115,115,32,103,114,97,98,98,101,100>>,
     v_black |-> \* '#000000'
        <<35,48,48,48,48,48,48>>,
     v_white |-> \* '#ffffff'
        <<35,102,102,102,102,102,102>>,
     bg_black |-> \* '48:2:0:0:0'
        <<52,56,58,50,58,48,58,48,58,48>>,
     bg_white |-> \* '48:2:255:255:255'
        <<52,56,58,50,58,50,53,53,58,50,53,53,58,50,53,53>>,
     v_11 |-> \* '11.0'
        <<49,49,46,48>>,
     v_12 |-> \* '12.0'
        <<49,50,46,48>>,
     v_ctrl_shift |-> \* 'ctrl+shift'
        <<99,116,114,108,43,115,104,105,102,116>>,
     v_empty_list |-> \* '[]'
        <<91,93>>,
     v_empty_dict |-> \* '{}'
        <<123,125>>,
     v_symbol_entry |-> \* '          U+e0a0 - U+e0a2 → Symbols'
        <<32,32,32,32,32,32,32,32,32,32,85,43,101,48,97,48,32,45,32,85,43,101,48,97,50,32,8594,32,83,121,109,98,111,108,115>>,
     v_symbol_dict |-> \* "{(57504, 57506): 'Symbols'}"
        <<123,40,53,55,53,48,52,44,32,53,55,53,48,54,41,58,32,39,83,121,109,98,111,108,115,39,125>>,
     version |-> \* 'kitty 0.30.0'
        <<107,105,116,116,121,32,48,46,51,48,46,48>>,
     uname |-> \* 'Linux host 6.1 #1 x86_64'
        <<76,105,110,117,120,32,104,111,115,116,32,54,46,49,32,35,49,32,120,56,54,95,54,52>>,
     kitty_exe |-> \* '/usr/bin/kitty'
        <<47,117,115,114,47,98,105,110,47,107,105,116,116,121>>,
     base_dir |-> \* '/usr/lib/kitty'
        <<47,117,115,114,47,108,105,98,47,107,105,116,116,121>>,
     ext_dir |-> \* '/usr/lib/kitty/kitty'
        <<47,117,115,114,47,108,105,98,47,107,105,116,116,121,47,107,105,116,116,121>>,
     shell_path |-> \* '/bin/sh'
        <<47,98,105,110,47,115,104>>,
     conf_path |-> \* '/home/u/.config/kitty/kitty.conf'
        <<47,104,111,109,101,47,117,47,46,99,111,110,102,105,103,47,107,105,116,116,121,47,107,105,116,116,121,46,99,111,110,102>>,
     issue |-> \* 'OS \\n \\l\n'
        <<79,83,32,92,110,32,92,108,10>>,
     lsb |-> \* 'DISTRIB_ID=OS\n'
        <<68,73,83,84,82,73,66,95,73,68,61,79,83,10>>,
     host |-> \* 'host'
        <<104,111,115,116>>,
     tty |-> \* '(none)'
        <<40,110,111,110,101,41>>,
     id_s |-> \* 'Linux'
        <<76,105,110,117,120>>,
     id_r |-> \* '6.1'
        <<54,46,49>>,
     id_v |-> \* '#1'
        <<35,49>>,
     id_m |-> \* 'x86_64'
        <<120,56,54,95,54,52>>,
     id_d |-> \* 'Tue Nov 03 2026'
        <<84,117,101,32,78,111,118,32,48,51,32,50,48,50,54>>,
     id_t |-> \* '03:00:00'
        <<48,51,58,48,48,58,48,48>>,
     id_b |-> \* '0'
        <<48>>,
     id_u |-> \* '1'
        <<49>>,
     id_U |-> \* '1 user'
        <<49,32,117,115,101,114>>,
     e_HOME |-> \* 'HOME'
        <<72,79,77,69>>,
     e_LANG |-> \* 'LANG'
        <<76,65,78,71>>,
     e_LC_ALL |-> \* 'LC_ALL'
        <<76,67,95,65,76,76>>,
     e_PATH |-> \* 'PATH'
        <<80,65,84,72>>,
     ev_home |-> \* '/home/u'
        <<47,104,111,109,101,47,117>>,
     ev_C |-> \* 'C'
        <<67>>,
     ev_path |-> \* '/usr/bin:/bin'
        <<47,117,115,114,47,98,105,110,58,47,98,105,110>>,
     k_ctrl_shift_a |-> \* 'ctrl+shift+a'
        <<99,116,114,108,43,115,104,105,102,116,43,97>>,
     k_a_b |-> \* 'a > b'
        <<97,32,62,32,98>>,
     k_ctrl_a_b |-> \* 'ctrl+a > b'
        <<99,116,114,108,43,97,32,62,32,98>>,
     k_plus |-> \* '+'
        <<43>>,
     k_ctrl_plus |-> \* 'ctrl++'
        <<99,116,114,108,43,43>>,
     ab |-> \* 'ab'
        <<97,98>>,
     go_1 |-> \* 'go 1'
        <<103,111,32,49>>]

-----------------------------------------------------------------------------
(* CmdArgs: config.py:90-147 *)

parts == <<"info", "config", "mouse", "keys", "colors", "env", "actions">>
Parts == {parts[i] : i \in 1..Len(parts)}

NoWhat    == <<>>                         \* the attribute 'what' not yet set

\* The attributes defaults() assigns; 'what' is left as it is.
defaults(self) ==
    [self EXCEPT !.diff = PyFalse, !.sort = <<>>, !.plain = PyFalse,
                 !.links = PyTrue, !.deleted = PyTrue, !.empty = PyTrue,
                 !.info = PyNone, !.config = PyNone, !.mouse = PyNone,
                 !.keys = PyNone, !.colors = PyNone, !.env = PyNone,
                 !.actions = PyNone]

\* CmdArgs(): __init__ calls defaults() on a fresh object.
CmdArgs ==
    defaults([diff |-> PyNone, sort |-> <<>>, plain |-> PyNone, links |-> PyNone,
              deleted |-> PyNone, empty |-> PyNone, info |-> PyNone,
              config |-> PyNone, mouse |-> PyNone, keys |-> PyNone,
              colors |-> PyNone, env |-> PyNone, actions |-> PyNone,
              what |-> NoWhat])

\* for attr in self.parts: setattr(self, attr, val)
SetAllParts(self, val) == [a \in DOMAIN self |-> IF a \in Parts THEN val ELSE self[a]]

\* the setter of the property 'all'
all_setter(self, val) ==
    IF val = PyNone THEN self ELSE SetAllParts(self, val)

\* the setter of the property 'debug_config'
debug_config_setter(self, val) ==
    IF val = PyNone THEN self
    ELSE IF Truthy(val)
         THEN [SetAllParts([self EXCEPT !.diff = PyTrue, !.sort = <<>>,
                                        !.deleted = PyTrue, !.empty = PyFalse],
                           PyTrue)
                 EXCEPT !.actions = PyFalse]
         ELSE defaults(self)

\* setattr(namespace, dest, value) as argparse's BooleanOptionalAction does it:
\* 'all' and 'debug_config' are properties of CmdArgs, the rest plain attributes.
setattr(self, dest, val) ==
    CASE dest = "all"          -> all_setter(self, val)
      [] dest = "debug_config" -> debug_config_setter(self, val)
      [] OTHER                 -> [self EXCEPT ![dest] = val]

\* resolveParts as it would be with its last branch (all parts unset) lost.
resolveParts_NoAllUnset(self) ==
    LET partVals == {self[a] : a \in Parts}
        filled ==
            IF PyTrue \in partVals
            THEN [a \in DOMAIN self |->
                    IF a \in Parts /\ self[a] = PyNone THEN PyFalse ELSE self[a]]
            ELSE IF PyFalse \in partVals
            THEN [a \in DOMAIN self |->
                    IF a \in Parts /\ self[a] = PyNone THEN PyTrue ELSE self[a]]
            ELSE self
        e == IF Truthy(filled.diff) THEN [filled EXCEPT !.empty = PyFalse] ELSE filled
        l == IF Truthy(e.plain) THEN [e EXCEPT !.links = PyFalse] ELSE e
    IN  [l EXCEPT !.what = IF Truthy(l.diff) THEN Lit.DIFF_of ELSE Lit.ALL]

\* resolveParts as it would be with the second branch filling False too.
resolveParts_FalseFillsFalse(self) ==
    LET partVals == {self[a] : a \in Parts}
        filled ==
            IF (PyTrue \in partVals) \/ (PyFalse \in partVals)
            THEN [a \in DOMAIN self |->
                    IF a \in Parts /\ self[a] = PyNone THEN PyFalse ELSE self[a]]
            ELSE SetAllParts(self, PyTrue)
        e == IF Truthy(filled.diff) THEN [filled EXCEPT !.empty = PyFalse] ELSE filled
        l == IF Truthy(e.plain) THEN [e EXCEPT !.links = PyFalse] ELSE e
    IN  [l EXCEPT !.what = IF Truthy(l.diff) THEN Lit.DIFF_of ELSE Lit.ALL]

\* resolveParts as it would be leaving links alone in plain mode.
resolveParts_KeepLinks(self) ==
    LET partVals == {self[a] : a \in Parts}
        filled ==
            IF PyTrue \in partVals
            THEN [a \in DOMAIN self |->
                    IF a \in Parts /\ self[a] = PyNone THEN PyFalse ELSE self[a]]
            ELSE IF PyFalse \in partVals
            THEN [a \in DOMAIN self |->
                    IF a \in Parts /\ self[a] = PyNone THEN PyTrue ELSE self[a]]
            ELSE SetAllParts(self, PyTrue)
        e == IF Truthy(filled.diff) THEN [filled EXCEPT !.empty = PyFalse] ELSE filled
    IN  [e EXCEPT !.what = IF Truthy(e.diff) THEN Lit.DIFF_of ELSE Lit.ALL]

\* resolveParts with every branch as in the source.
resolveParts(self) ==
    LET partVals == {self[a] : a \in Parts}
        filled ==
            IF PyTrue \in partVals
            THEN [a \in DOMAIN self |->
                    IF a \in Parts /\ self[a] = PyNone THEN PyFalse ELSE self[a]]
            ELSE IF PyFalse \in partVals
            THEN [a \in DOMAIN self |->
                    IF a \in Parts /\ self[a] = PyNone THEN PyTrue ELSE self[a]]
            ELSE SetAllParts(self, PyTrue)
        e == IF Truthy(filled.diff) THEN [filled EXCEPT !.empty = PyFalse] ELSE filled
        l == IF Truthy(e.plain) THEN [e EXCEPT !.links = PyFalse] ELSE e
    IN  [l EXCEPT !.what = IF Truthy(l.diff) THEN Lit.DIFF_of ELSE Lit.ALL]

\* The destinations of the switches parseArgs declares (config.py:491-505).
Dests == Parts \cup {"diff", "all", "deleted", "empty", "debug_config", "links", "plain"}

\* One switch on the command line: --<dest> stores True, --no-<dest> False.
Switches(D) == D \X {PyTrue, PyFalse}

-----------------------------------------------------------------------------
(* Operations on strings and on sets of them                                *)

ESC  == 27     \* '\x1b'
SP   == 32     \* ' '
PLUS == 43     \* '+'
LOWER_M == 109 \* 'm'

RECURSIVE Concat(_)
\* ''.join(ss)
Concat(ss) == IF ss = <<>> THEN <<>> ELSE Head(ss) \o Concat(Tail(ss))

RECURSIVE Join(_, _)
\* sep.join(ss)
Join(sep, ss) ==
    IF ss = <<>> THEN <<>>
    ELSE IF Len(ss) = 1 THEN ss[1]
    ELSE ss[1] \o sep \o Join(sep, Tail(ss))

\* ' ' * n (the empty string for n <= 0)
Spaces(n) == [i \in 1..n |-> SP]

SetMin(S) == CHOOSE x \in S : \A y \in S : x <= y
SetMax(S) == CHOOSE x \in S : \A y \in S : y <= x

\* Python's a < b on str: by the first differing character, else by length.
StrLess(a, b) ==
    LET n == IF Len(a) < Len(b) THEN Len(a) ELSE Len(b)
        d == {i \in 1..n : a[i] # b[i]}
    IN  IF d = {} THEN Len(a) < Len(b) ELSE a[SetMin(d)] < b[SetMin(d)]

\* Python's a < b on tuples of two strings.
PairLess(a, b) == StrLess(a[1], b[1]) \/ (a[1] = b[1] /\ StrLess(a[2], b[2]))

\* sorted(S) of a set of distinct pairs of strings.
SortedPairs(S) ==
    [i \in 1..Cardinality(S) |->
        CHOOSE x \in S : Cardinality({y \in S : PairLess(y, x)}) = i - 1]

-----------------------------------------------------------------------------
(* Styling: config.py:34-87.  colored and styled are the host's            *)
(* kittens.tui.operations: an SGR sequence before the text and one after.  *)

\* '\x1b[' + code + 'm'
sgr(code) == <<ESC, 91>> \o code \o <<LOWER_M>>

colored(x, code) == sgr(code) \o x \o sgr(<<51,57>>)    \* reset: 39
red(x)    == colored(x, <<51,49>>)                      \* 31
green(x)  == colored(x, <<51,50>>)                      \* 32
yellow(x) == colored(x, <<51,51>>)                      \* 33
blue(x)   == colored(x, <<51,52>>)                      \* 34
title(x)  == colored(x, <<57,52>>)                      \* 94: blue, intense
dim(x)    == sgr(<<50>>) \o x \o sgr(<<50,50>>)         \* 2 ... 22
nofmt(x)  == x


\* link_id only numbers the hyperlinks of a report; every link is written
\* with the digits of the first id, 2.

link(url, txt) ==
    IF Truthy(cmdArgs.links)
    THEN Lit.osc8 \o Lit.id \o Lit.link_id \o <<59>> \o url \o Lit.st \o txt \o Lit.link_end
    ELSE txt

nolink == IF Truthy(cmdArgs.links) THEN Lit.link_end ELSE <<>>

eolnl == IF Truthy(cmdArgs.links) THEN <<10>> \o Lit.link_end ELSE <<10>>


linkAction(txt) == link(Lit.url_actions \o Lit.frag_action \o txt, txt)
linkConfig(txt) == link(Lit.url_conf \o Lit.frag_opt \o txt, txt)

-----------------------------------------------------------------------------
(* Splitting and justification: config.py:151-186 *)

\* Whether txt[1..p] matches (([^ +]+)\+)* : no space, no empty name.
ModPrefix(txt, p) ==
    \/ p = 0
    \/ /\ txt[p] = PLUS
       /\ \A i \in 1..p : /\ txt[i] # SP
                          /\ txt[i] = PLUS => (i > 1 /\ txt[i-1] # PLUS)

\* re.fullmatch(shortcutRe, txt): groups 1 and 4.  The repetition is greedy
\* and (.*) takes any rest without a newline, so group 1 is the longest
\* modifier prefix; there is no match when a newline follows that prefix.
shortcutSplit(txt) ==
    LET p == SetMax({q \in 0..Len(txt) : ModPrefix(txt, q)})
    IN  IF \E i \in (p + 1)..Len(txt) : txt[i] = 10
        THEN <<<<>>, txt>>
        ELSE <<SubSeq(txt, 1, p), SubSeq(txt, p + 1, Len(txt))>>

\* The place of the first space of txt, 0 if it has none.
FirstSpace(txt) ==
    LET sp == {i \in 1..Len(txt) : txt[i] = SP}
    IN  IF sp = {} THEN 0 ELSE SetMin(sp)

\* re.fullmatch(r'([^ ]+)( .*)', txt): the name up to the first space and
\* the rest from that space on; no match without a space or with a leading one.
actionSplit(txt) ==
    LET i == FirstSpace(txt)
    IN  IF i > 1
        THEN <<SubSeq(txt, 1, i - 1), SubSeq(txt, i, Len(txt))>>
        ELSE <<txt, <<>>>>

\* re.sub(r' .*$', r'', txt): txt cut at its first space.
actionName(txt) ==
    LET i == FirstSpace(txt)
    IN  IF i = 0 THEN txt ELSE SubSeq(txt, 1, i - 1)


\* A sort key that puts the modifier prefix first.
shortcutSortKey_ModFirst(txt) ==
    LET mk == shortcutSplit(txt) IN mk[1] \o Lit.zzz \o mk[2]

\* f'{key} zzz {mod}'
shortcutSortKey(txt) ==
    LET mk == shortcutSplit(txt) IN mk[2] \o Lit.zzz \o mk[1]

nojust(n, s) == s
ljust(n, s)  == s \o Spaces(n - Len(s))
rjust(n, s)  == Spaces(n - Len(s)) \o s
\* str.center: the odd space goes left when the width is odd, else right.
center(n, s) ==
    LET marg == n - Len(s)
        left == (marg \div 2) + (IF marg % 2 = 1 /\ n % 2 = 1 THEN 1 ELSE 0)
    IN  IF marg <= 0 THEN s ELSE Spaces(left) \o s \o Spaces(marg - left)
formatConf(n, s) == linkConfig(s) \o Spaces(n - Len(s))
formatAction(n, s) ==
    LET aa == actionSplit(s) IN linkAction(aa[1]) \o aa[2] \o Spaces(n - Len(s))

shortcutFormat(mod, key) == yellow(mod) \o green(key)

\* A justFn or a fmtFn of a TabFmt is named by a string and applied here.
Just(fn, n, s) ==
    CASE fn = "nojust"       -> nojust(n, s)
      [] fn = "ljust"        -> ljust(n, s)
      [] fn = "rjust"        -> rjust(n, s)
      [] fn = "center"       -> center(n, s)
      [] fn = "formatConf"   -> formatConf(n, s)
      [] fn = "formatAction" -> formatAction(n, s)

Fmt(fn, s) ==
    CASE fn = "nofmt"  -> nofmt(s)
      [] fn = "red"    -> red(s)
      [] fn = "green"  -> green(s)
      [] fn = "yellow" -> yellow(s)
      [] fn = "blue"   -> blue(s)
      [] fn = "dim"    -> dim(s)

\* TabFmt(indent=0, justFn=nojust, fmtFn=nofmt)
TabFmt(indent, justFn, fmtFn) == [indent |-> indent, justFn |-> justFn, fmtFn |-> fmtFn]

-----------------------------------------------------------------------------
(* The table formatter: config.py:188-196 *)

\* FieldLens as it would be measuring the first row only.
FieldLens_FirstRow(a) ==
    LET ncols == SetMin({Len(a[r]) : r \in 1..Len(a)})
    IN  [c \in 1..ncols |-> Len(a[1][c])]

\* [max(map(len, aa)) for aa in zip(*a)]: zip stops at the shortest row.
FieldLens(a) ==
    LET ncols == SetMin({Len(a[r]) : r \in 1..Len(a)})
    IN  [c \in 1..ncols |-> SetMax({Len(a[r][c]) : r \in 1..Len(a)})]

\* One cell: (' '*fmt1.indent) + fmt1.fmtFn(fmt1.justFn(width, val))
FormatCell(val, fmt1, width) ==
    Spaces(fmt1.indent) \o Fmt(fmt1.fmtFn, Just(fmt1.justFn, width, val))

\* formatTable: a list of (row, text), one per row of a.
formatTable(a, fmt) ==
    IF Len(a) = 0 THEN <<>>
    ELSE LET field_lens == FieldLens(a)
         IN  [r \in 1..Len(a) |->
                LET n == SetMin({Len(a[r]), Len(fmt), Len(field_lens)})
                IN  [row |-> a[r],
                     txt |-> Concat([c \in 1..n |->
                                FormatCell(a[r][c], fmt[c], field_lens[c])])]]

-----------------------------------------------------------------------------
(* The mapping differ: config.py:199-244 *)

\* print(*args, end=end) into the report: the arguments joined by spaces.
print(args, end) == Join(<<SP>>, args) \o end


\* action2key.setdefault(name, []).append(pair)
A2KAppend(a2k, name, pair) ==
    [n \in DOMAIN a2k \cup {name} |->
        IF n = name
        THEN (IF n \in DOMAIN a2k THEN a2k[n] ELSE <<>>) \o <<pair>>
        ELSE a2k[n]]

\* One turn of the loop of print_mapping_changes, for the trigger k: the
\* columns of its row, whether the turn reaches the reverse index (it does
\* not after the 'continue' of diff mode, nor for a removed trigger) and
\* whether it reaches table.append.
MappingRow(k, defns, idefns, added, removed, changed) ==
    LET isremoved == k \in removed
        ischanged == k \in changed
        isadded   == k \in added
        flags == IF isadded THEN Lit.flag_A
                 ELSE IF ischanged THEN Lit.flag_C
                 ELSE IF isremoved THEN Lit.flag_R
                 ELSE Lit.flag_no
        skipped == Truthy(cmdArgs.diff) /\ ~isadded /\ ~ischanged /\ ~isremoved
        v == IF ~isremoved THEN formatAction(0, defns[k]) ELSE Lit.flag_no
        orig == IF ischanged \/ isremoved
                THEN Lit.orig_open \o formatAction(0, defns[k]) \o Lit.orig_close
                ELSE <<>>
    IN  [k |-> k, flags |-> flags, v |-> v, orig |-> orig,
         indexed |-> ~skipped /\ ~isremoved,
         listed  |-> ~skipped /\ ~(isremoved /\ ~Truthy(cmdArgs.deleted))]

RECURSIVE A2KLoop(_, _, _, _)
\* The appends to the reverse index of the turns i.. of the loop, in order.
A2KLoop(rows, defns, i, a2k) ==
    IF i > Len(rows) THEN a2k
    ELSE A2KLoop(rows, defns, i + 1,
                 IF rows[i].indexed
                 THEN A2KAppend(a2k, actionName(defns[rows[i].k]),
                                <<rows[i].k, defns[rows[i].k]>>)
                 ELSE a2k)

\* The column formats of the table of bindings (config.py:217-223).
MappingFmt ==
    <<TabFmt(2, "rjust", "yellow"), TabFmt(0, "ljust", "green"),
      TabFmt(0, "nojust", "red"), TabFmt(0, "nojust", "nofmt"),
      TabFmt(0, "nojust", "dim")>>

\* The loop of printTable over the rows t of formatTable: print(rowFmtFn(row,
\* txt)); dimRemoved tells that rowFmtFn dims the rows of removed triggers.
printRows(t, end, dimRemoved) ==
    Concat([r \in 1..Len(t) |->
        print(<<IF dimRemoved /\ t[r].row[3] = Lit.flag_R
                THEN dim(t[r].txt) ELSE t[r].txt>>, end)])

\* printTable(a, fmt, print, rowFmtFn): every row of formatTable printed.
printTable(a, fmt, end, dimRemoved) == printRows(formatTable(a, fmt), end, dimRemoved)

\* The triggers in the order of the loop:
\* k[1] for k in sorted([(shortcutSortKey(s), s) for s in defns])
SortedTriggers(S) ==
    LET sorted == SortedPairs({<<shortcutSortKey(x), x>> : x \in S})
    IN  [i \in 1..Len(sorted) |-> sorted[i][2]]

\* The turns of the loop of print_mapping_changes, one per trigger of order.
MappingRows(order, defns, idefns, added, removed, changed) ==
    [i \in 1..Len(order) |-> MappingRow(order[i], defns, idefns, added, removed, changed)]

\* table, as the loop leaves it: (*shortcutSplit(k), flags, v, orig) for the
\* turns that reach table.append.
MappingTable(listed) ==
    [i \in 1..Len(listed) |->
        <<shortcutSplit(listed[i].k)[1], shortcutSplit(listed[i].k)[2],
          listed[i].flags, listed[i].v, listed[i].orig>>]

\* What print_mapping_changes does with the turns of its loop: the text
\* printed and the reverse index afterwards; the turns and the three sets it
\* was given are kept beside them.
MappingPrinted(what, defns, added, removed, changed, text, a2k, rows) ==
    [text  |-> IF Truthy(cmdArgs[what])
               THEN print(<<title(text)>>, eolnl)
                    \o printTable(MappingTable(SelectSeq(rows, LAMBDA r : r.listed)),
                                  MappingFmt, eolnl, TRUE)
               ELSE <<>>,
     a2k   |-> A2KLoop(rows, defns, 1, a2k),
     rows  |-> rows,
     added |-> added, removed |-> removed, changed |-> changed]

\* print_mapping_changes(what, defns, idefns, added, removed, changed, text, print)
print_mapping_changes(what, defns, idefns, added, removed, changed, text, a2k) ==
    MappingPrinted(what, defns, added, removed, changed, text, a2k,
        MappingRows(SortedTriggers(DOMAIN defns), defns, idefns, added, removed, changed))

\* set(ef) - set(ei)
MapAdded(ef, ei) == DOMAIN ef \ DOMAIN ei
\* set(ei) - set(ef)
MapRemoved(ef, ei) == DOMAIN ei \ DOMAIN ef

\* Every trigger of both maps taken as changed.
MapChanged_Common(ef, ei) == DOMAIN ef \cap DOMAIN ei

\* {k for k in set(ef) & set(ei) if ef[k] != ei[k]}
MapChanged(ef, ei) == {k \in DOMAIN ef \cap DOMAIN ei : ef[k] # ei[k]}

\* dict(list(ei.items()) + list(ef.items())): the later item wins.
MergedDefns(ef, ei) ==
    [k \in DOMAIN ei \cup DOMAIN ef |-> IF k \in DOMAIN ef THEN ef[k] ELSE ei[k]]

\* compare_maps.  final and initial are keyed by the triggers' human_repr,
\* the host's text for a trigger under the kitty_mod of its options.
compare_maps(what, final, initial, a2k) ==
    LET ei == initial
        ef == final
        which == IF what = "keys" THEN link(Lit.url_keys, Lit.keyboard_shortcuts)
                 ELSE link(Lit.url_mouse, Lit.mouse_actions)
    IN  print_mapping_changes(what, MergedDefns(ef, ei), ei, MapAdded(ef, ei),
                              MapRemoved(ef, ei), MapChanged(ef, ei),
                              cmdArgs.what \o <<SP>> \o which \o Lit.colon, a2k)

\* flatten_sequence_map: a map of first keys to maps of the remaining keys,
\* as one map of key sequences (written 'first > rest' by human_repr).
flatten_sequence_map(m) ==
    LET ks == UNION {{<<k, r>> : r \in DOMAIN m[k]} : k \in DOMAIN m}
    IN  [x \in {kr[1] \o Host.seq \o kr[2] : kr \in ks} |->
            LET kr == CHOOSE y \in ks : y[1] \o Host.seq \o y[2] = x
            IN  m[kr[1]][kr[2]]]

\* final.update(final_s): the key sequences added to the single keys.
MapUpdate(m, u) ==
    [k \in DOMAIN m \cup DOMAIN u |-> IF k \in DOMAIN u THEN u[k] ELSE m[k]]

-----------------------------------------------------------------------------
(* The option differ: config.py:247-300 *)


\* sorted(S) of a set of distinct strings.
SortedStrs(S) ==
    [i \in 1..Cardinality(S) |->
        CHOOSE x \in S : Cardinality({y \in S : StrLess(y, x)}) = i - 1]

\* The value of an option: its type (kind), str(value) (for a Color the
\* color_as_sharp text, for kitty_mod the '+'-joined modifier names, for a
\* dict its pformat), and in extra the background code of a Color or the
\* entries of a dict, each as the source prints it.
OptVal(kind, str, extra) == [kind |-> kind, str |-> str, extra |-> extra]

ignored == {Lit.keymap, Lit.sequence_map, Lit.mousemap, Lit.map, Lit.mouse_map}

\* styled('  ', bg=val)
ColorSwatch(val) == sgr(val.extra) \o Lit.two_spaces \o sgr(Host.bg_reset)

\* One turn of the loop over cmp_opts, for the field f: what printConfig is
\* given, and the entry appended to colors (a Color field prints nothing).
OptField(f, o, dflt, ischanged, field_len) ==
    LET flags == red(IF ischanged THEN Lit.flag_C ELSE Lit.flag_no)
        val == o.values[f]
    IN  IF val.kind = "dict"
        THEN [colors |-> <<>>,
              text |-> print(<<flags, title(linkConfig(f) \o Lit.colon)>>, <<SP>>)
                       \o (IF f = Lit.symbol_map
                           THEN print(<<>>, eolnl)
                                \o Concat([i \in 1..Len(val.extra) |->
                                             print(<<val.extra[i]>>, eolnl)])
                           ELSE IF f = Lit.modify_font
                           THEN print(<<>>, eolnl)
                                \o Concat([i \in 1..Len(val.extra) |->
                                             print(<<Lit.indent10, val.extra[i]>>, eolnl)])
                           ELSE print(<<val.str>>, eolnl))]
        ELSE IF val.kind = "color"
        THEN [colors |-> <<flags \o <<SP>> \o yellow(ljust(field_len, f)) \o <<SP>>
                           \o val.str \o <<SP>> \o ColorSwatch(val)>>,
              text |-> <<>>]
        ELSE [colors |-> <<>>,
              text |-> print(<<flags, yellow(formatConf(field_len, f)), val.str>>, <<>>)
                       \o print(<<IF ischanged
                                  THEN dim(Lit.orig_open \o dflt.values[f].str \o Lit.orig_close)
                                  ELSE <<>> >>, eolnl)]

\* The end of compare_opts: what it has printed and found, given the text
\* of its loop (config), the fields of cmp_opts with their change marks
\* (shown), the colors collected and what the two compare_maps calls did.
OptsCompared(config, shown, colors, mouse, keys) ==
    [error |-> FALSE,
     text |-> config \o mouse.text \o keys.text
              \o (IF Truthy(cmdArgs.colors) /\ colors # <<>>
                  THEN print(<<title(cmdArgs.what \o Lit.colors) \o Lit.colon>>, eolnl)
                       \o print(<<Join(<<10>>, SortedStrs({colors[i] : i \in 1..Len(colors)}))>>,
                                eolnl)
                  ELSE <<>>),
     a2k |-> keys.a2k, shown |-> shown, mouse |-> mouse, keys |-> keys]

\* compare_opts from its first compare_maps on: the mouse map, then the key
\* map with the key sequences, which finds the reverse index as the mouse
\* map left it.
OptsMaps(o, dflt, config, shown, colors, mouse) ==
    OptsCompared(config, shown, colors, mouse,
        compare_maps("keys",
                     MapUpdate(o.keymap, flatten_sequence_map(o.sequence_map)),
                     MapUpdate(dflt.keymap, flatten_sequence_map(dflt.sequence_map)),
                     mouse.a2k))

\* compare_opts(opts, print).  dflt is both `defaults` and load_config(), the
\* built-in options.  The result: whether max() raised on an empty cmp_opts,
\* the text printed, the reverse index afterwards, the fields of cmp_opts
\* with their change marks, and what the two compare_maps calls did.
compare_opts(o, dflt, a2k) ==
    LET printConfig == Truthy(cmdArgs.config)
        header == print(<<link(Lit.url_conf, cmdArgs.what \o Lit.config_options)>>, eolnl)
        sorted_fields == SortedStrs({dflt.fields[i] : i \in 1..Len(dflt.fields)})
        changed_opts == SelectSeq(sorted_fields,
                            LAMBDA f : f \notin ignored /\ o.values[f] # dflt.values[f])
        cmp_opts == IF Truthy(cmdArgs.diff) THEN changed_opts ELSE dflt.fields
        raises == Len(dflt.fields) > 0 /\ cmp_opts = <<>>
        field_len == IF Len(dflt.fields) > 0
                     THEN SetMax({Len(cmp_opts[i]) : i \in 1..Len(cmp_opts)})
                     ELSE 20
        ischanged(f) == \E i \in 1..Len(changed_opts) : changed_opts[i] = f
        turns == [i \in 1..Len(cmp_opts) |->
                    OptField(cmp_opts[i], o, dflt, ischanged(cmp_opts[i]), field_len)]
    IN  IF raises
        THEN [error |-> TRUE, text |-> <<>>, a2k |-> a2k, shown |-> <<>>,
              mouse |-> <<>>, keys |-> <<>>]
        ELSE OptsMaps(o, dflt,
                 IF printConfig
                 THEN header \o Concat([i \in 1..Len(cmp_opts) |-> turns[i].text])
                 ELSE <<>>,
                 [i \in 1..Len(cmp_opts) |->
                     [f |-> cmp_opts[i], changed |-> ischanged(cmp_opts[i])]],
                 Concat([i \in 1..Len(cmp_opts) |-> turns[i].colors]),
                 compare_maps("mouse", o.mousemap, dflt.mousemap, a2k))

-----------------------------------------------------------------------------
(* The actions report: config.py:360-407 *)


\* The order sorted() gives the pairs of action2key[a]: by the action string,
\* then by shortcutSortKey of the trigger.
A2KLess(x, y) == PairLess(<<x[2], shortcutSortKey(x[1])>>, <<y[2], shortcutSortKey(y[1])>>)

\* sorted() of a list of (trigger, action) pairs, which may repeat a pair.
A2KSorted(l) ==
    LET rank(i) == Cardinality({j \in 1..Len(l) : A2KLess(l[j], l[i])})
                   + Cardinality({j \in 1..(i-1) : l[j] = l[i]})
    IN  [r \in 1..Len(l) |-> l[CHOOSE i \in 1..Len(l) : rank(i) = r - 1]]

ActionsFmt ==
    <<TabFmt(0, "ljust", "blue"), TabFmt(2, "formatAction", "nofmt"),
      TabFmt(3, "nojust", "dim")>>

CompositeFmt ==
    <<TabFmt(10, "rjust", "yellow"), TabFmt(0, "ljust", "green"),
      TabFmt(3, "nojust", "nofmt")>>

\* The grid of the simple bindings of an action, four to a line.
SimpleGrid(a2ksimple) ==
    IF Len(a2ksimple) > 0
    THEN print(<<Lit.indent7>>, <<>>)
         \o Concat([i \in 1..Len(a2ksimple) |->
                (IF i - 1 # 0 /\ (i - 1) % 4 = 0 THEN print(<<Lit.nl_indent7>>, <<>>) ELSE <<>>)
                \o (LET mk == shortcutSplit(a2ksimple[i][1])
                    IN  print(<<Lit.indent3, shortcutFormat(mk[1], mk[2])>>, <<>>))])
         \o print(<<>>, eolnl)
    ELSE <<>>

\* printActions(print): actions is getActions(), the host's (group, action,
\* summary) descriptors in its order; a2k is action2key as the report finds it.
printActions(actions, a2k) ==
    LET actionsTable == formatTable(actions, ActionsFmt)
        one(i) ==
            LET rowTxt == actionsTable[i].txt
                a == actionName(actionsTable[i].row[2])
                a2ksorted == A2KSorted(a2k[a])
                a2ksimple == SelectSeq(a2ksorted, LAMBDA v : v[2] = a)
                a2kcomposite == SelectSeq(a2ksorted, LAMBDA v : v[2] # a)
            IN  (IF Truthy(cmdArgs.empty) THEN print(<<rowTxt>>, eolnl) ELSE <<>>)
                \o (IF a \in DOMAIN a2k
                    THEN (IF ~Truthy(cmdArgs.empty) THEN print(<<rowTxt>>, eolnl) ELSE <<>>)
                         \o SimpleGrid(a2ksimple)
                         \o printTable([j \in 1..Len(a2kcomposite) |->
                                          LET mk == shortcutSplit(a2kcomposite[j][1])
                                          IN  <<mk[1], mk[2], formatAction(0, a2kcomposite[j][2])>>],
                                       CompositeFmt, eolnl, FALSE)
                    ELSE <<>>)
    IN  Concat([i \in 1..Len(actionsTable) |-> one(i)])

-----------------------------------------------------------------------------
(* The report assembler: config.py:303-353, 410-472 *)


envVars ==
    {<<80,65,84,72>>,
     <<76,65,78,71>>,
     <<75,73,84,84,89,95,67,79,78,70,73,71,95,68,73,82,69,67,84,79,82,89>>,
     <<75,73,84,84,89,95,67,65,67,72,69,95,68,73,82,69,67,84,79,82,89>>,
     <<86,73,83,85,65,76>>,
     <<69,68,73,84,79,82>>,
     <<83,72,69,76,76>>,
     <<71,76,70,87,95,73,77,95,77,79,68,85,76,69>>,
     <<75,73,84,84,89,95,87,65,89,76,65,78,68,95,68,69,84,69,67,84,95,77,79,68,73,70,73,69,82,83>>,
     <<68,73,83,80,76,65,89>>,
     <<87,65,89,76,65,78,68,95,68,73,83,80,76,65,89>>,
     <<85,83,69,82>>,
     <<88,67,85,82,83,79,82,95,83,73,90,69>>}

StartsWith(s, pre) == Len(s) >= Len(pre) /\ SubSeq(s, 1, Len(pre)) = pre

\* The characters str.strip() removes: space, \t, \n, \v, \f, \r.
IsSpace(c) == c \in {32, 9, 10, 11, 12, 13}

\* s.strip()
strip(s) ==
    LET keep == {i \in 1..Len(s) : ~IsSpace(s[i])}
    IN  IF keep = {} THEN <<>> ELSE SubSeq(s, SetMin(keep), SetMax(keep))

\* IssueData.translate_issue_char: the attribute named by one character if
\* the object has it, else the character itself.
translate_issue_char(idata, char) ==
    IF char \in DOMAIN idata THEN idata[char] ELSE <<char>>

RECURSIVE parse_issue_file(_, _, _, _)
\* IssueData.parse_issue_file: the strings yielded for the characters from
\* place i on; last_char is 0 for None.
parse_issue_file(idata, txt, i, last_char) ==
    IF i > Len(txt)
    THEN (IF last_char # 0 THEN <<last_char>> ELSE <<>>)
    ELSE (IF last_char = 92 THEN translate_issue_char(idata, txt[i])
          ELSE IF last_char # 0 THEN <<last_char>>
          ELSE <<>>)
         \o parse_issue_file(idata, txt, i + 1, IF last_char = 92 THEN 0 ELSE txt[i])

RECURSIVE SubSgr(_, _, _, _, _)
\* re.sub(r'\x1b[^m]*m', '', s) over s[lo..hi]: a match starts at an ESC with
\* an 'm' somewhere after it (lastM is the place of the last 'm' of s) and
\* runs up to the first 'm'.  skipping tells whether lo is inside a match;
\* the result tells the same for hi + 1.
SubSgr(s, lo, hi, skipping, lastM) ==
    IF lo > hi THEN [out |-> <<>>, skipping |-> skipping]
    ELSE IF lo = hi
    THEN IF skipping THEN [out |-> <<>>, skipping |-> s[lo] # LOWER_M]
         ELSE IF s[lo] = ESC /\ lo < lastM THEN [out |-> <<>>, skipping |-> TRUE]
         ELSE [out |-> <<s[lo]>>, skipping |-> FALSE]
    ELSE LET mid == (lo + hi) \div 2
             l == SubSgr(s, lo, mid, skipping, lastM)
             r == SubSgr(s, mid + 1, hi, l.skipping, lastM)
         IN  [out |-> l.out \o r.out, skipping |-> r.skipping]

\* re.sub(r'\x1b[^m]*m', '', s)
PlainText(s) ==
    LET ms == {i \in 1..Len(s) : s[i] = LOWER_M}
    IN  IF ms = {} THEN s ELSE SubSgr(s, 1, Len(s), FALSE, SetMax(ms)).out

\* The info section up to the first statement that raises.  h tells how
\* /etc/issue and /etc/lsb-release are: "absent", "readable", "open_fails"
\* (open raises), "read_fails" (read raises); for /etc/issue also
\* "idata_fails" (IssueData() raises, which the source catches).
InfoSection(o, h, sys) ==
    LET issueRaises == h.issue \in {"open_fails", "read_fails"}
        lsbRaises == h.lsb \in {"open_fails", "read_fails"}
        issue == IF h.issue = "readable"
                 THEN print(<<>>, parse_issue_file(sys.idata, sys.issue, 1, 0))
                 ELSE <<>>
        lsb == IF h.lsb = "readable" THEN print(<<strip(sys.lsb)>>, eolnl) ELSE <<>>
    IN  [error |-> issueRaises \/ lsbRaises,
         text |->
            print(<<sys.version>>, eolnl)
            \o print(<<sys.uname>>, eolnl)
            \o issue
            \o lsb
            \o (IF ~sys.is_macos
                THEN print(<<Lit.running_under,
                             green(IF sys.is_wayland THEN Lit.Wayland ELSE Lit.X11)>>, eolnl)
                ELSE <<>>)
            \o print(<<green(Lit.Frozen), IF sys.frozen THEN Lit.True ELSE Lit.False>>, eolnl)
            \o print(<<green(Lit.Paths)>>, eolnl)
            \o print(<<yellow(Lit.p_kitty), sys.kitty_exe>>, eolnl)
            \o print(<<yellow(Lit.p_base), sys.kitty_base_dir>>, eolnl)
            \o print(<<yellow(Lit.p_ext), sys.extensions_dir>>, eolnl)
            \o print(<<yellow(Lit.p_shell), sys.shell_path>>, eolnl)
            \o (IF o.config_paths # <<>>
                THEN print(<<green(Lit.loaded_files)>>, eolnl)
                     \o print(<<<<SP>>, Join(Lit.nl_two, o.config_paths)>>, eolnl)
                ELSE <<>>)
            \o (IF o.config_overrides # <<>>
                THEN print(<<green(Lit.loaded_overrides)>>, eolnl)
                     \o print(<<<<SP>>, Join(Lit.nl_two, o.config_overrides)>>, eolnl)
                ELSE <<>>)
            \o print(<<>>, eolnl)]

EnvFmt == <<TabFmt(6, "ljust", "yellow"), TabFmt(3, "nojust", "nofmt")>>

\* The environment section: the variables of the allow-list, sorted.
EnvSection(sys) ==
    LET shown == {kv \in sys.environ :
                    StartsWith(kv[1], Lit.LC_) \/ StartsWith(kv[1], Lit.XDG_)
                    \/ kv[1] \in envVars}
    IN  print(<<green(Lit.important_env)>>, eolnl)
        \o printTable(SortedPairs(shown), EnvFmt, eolnl, FALSE)
        \o print(<<>>, eolnl)

\* The return of debug_config: out.getvalue(), with the SGR sequences cut
\* out in plain mode.
Returned(co, raw) ==
    [error |-> "none", raw |-> raw,
     text |-> IF ~Truthy(cmdArgs.plain) THEN raw ELSE PlainText(raw),
     a2k |-> co.a2k, shown |-> co.shown, mouse |-> co.mouse, keys |-> co.keys]

\* A call of debug_config that an exception ends: nothing is returned and
\* the reverse index is as the call found it (both places that raise come
\* before the first compare_maps).
Raised(exception, a2k) ==
    [error |-> exception, raw |-> <<>>, text |-> <<>>, a2k |-> a2k,
     shown |-> <<>>, mouse |-> <<>>, keys |-> <<>>]

\* debug_config after the info section (info) and compare_opts (co).
Assembled(sys, a2k, info, co) ==
    IF info.error THEN Raised("OSError", a2k)
    ELSE IF co.error THEN Raised("ValueError", a2k)
    ELSE Returned(co,
            info.text \o co.text \o print(<<>>, eolnl)
            \o (IF Truthy(cmdArgs.env) THEN EnvSection(sys) ELSE <<>>)
            \o (IF Truthy(cmdArgs.actions)
                THEN print(<<green(link(Lit.url_actions,
                                        cmdArgs.what \o Lit.available_actions))>>, eolnl)
                     \o printActions(sys.actions, co.a2k)
                ELSE <<>>))

\* debug_config(opts): o the options, dflt the built-in ones, h the state of
\* the two files, sys the rest the host supplies, a2k the reverse index as
\* the call finds it.  error names the exception that ends the call, if one
\* does; raw is out.getvalue() and text the string returned.
debug_config(o, dflt, h, sys, a2k) ==
    Assembled(sys, a2k,
              IF Truthy(cmdArgs.info) THEN InfoSection(o, h, sys)
              ELSE [error |-> FALSE, text |-> <<>>],
              compare_opts(o, dflt, a2k))

-----------------------------------------------------------------------------
(* The host: what kitty hands the kitten.  Built-in options, the options in *)
(* effect, the action descriptors, the environment, /etc/issue.            *)


\* defaults._fields, which is also the order iter(load_config()) gives.
OptionFields == <<Host.background, Host.font_size, Lit.kitty_mod, Lit.map, Lit.symbol_map>>

\* An options object with the given background, font_size and symbol_map.
OptionValues(bg, size, symbols) ==
    [f \in {OptionFields[i] : i \in 1..Len(OptionFields)} |->
        CASE f = Host.background -> bg
          [] f = Host.font_size  -> size
          [] f = Lit.kitty_mod  -> OptVal("scalar", Host.v_ctrl_shift, <<>>)
          [] f = Lit.map        -> OptVal("scalar", Host.v_empty_list, <<>>)
          [] f = Lit.symbol_map -> symbols]

Backgrounds == {OptVal("color", Host.v_black, Host.bg_black), OptVal("color", Host.v_white, Host.bg_white)}
FontSizes   == {OptVal("scalar", Host.v_11, <<>>), OptVal("scalar", Host.v_12, <<>>)}
SymbolMaps  == {OptVal("dict", Host.v_empty_dict, <<>>),
                OptVal("dict", Host.v_symbol_dict, <<Host.v_symbol_entry>>)}

DefaultValues ==
    OptionValues(OptVal("color", Host.v_black, Host.bg_black), OptVal("scalar", Host.v_11, <<>>),
                 OptVal("dict", Host.v_empty_dict, <<>>))

\* A map of two bindings given as pairs.
Map2(k1, v1, k2, v2) == [k \in {k1, k2} |-> IF k = k1 THEN v1 ELSE v2]
Map3(k1, v1, k2, v2, k3, v3) ==
    [k \in {k1, k2, k3} |-> IF k = k1 THEN v1 ELSE IF k = k2 THEN v2 ELSE v3]
EmptyMap == <<>>

DefaultKeymap ==
    Map3(Host.k_ctrl_a, Host.next_tab, Host.k_shift_a, Host.goto_tab_1, Host.k_ctrl_b, Host.previous_tab)
\* The key sequence a > b.
DefaultSequenceMap == [k \in {Host.k_a} |-> [r \in {Host.k_b} |-> Host.next_tab]]
DefaultMousemap ==
    Map2(Host.m_left, Host.mouse_selection_normal, Host.m_ctrl_left, Host.mouse_selection_extend)

\* load_config(), and kitty.options.types.defaults: the built-in options.
DefaultOptions ==
    [fields |-> OptionFields, values |-> DefaultValues,
     mousemap |-> DefaultMousemap, keymap |-> DefaultKeymap,
     sequence_map |-> DefaultSequenceMap,
     config_paths |-> <<>>, config_overrides |-> <<>>]

\* The options in effect: create_default_opts() or get_options().
Options(values, mousemap, keymap, sequence_map) ==
    [fields |-> OptionFields, values |-> values,
     mousemap |-> mousemap, keymap |-> keymap, sequence_map |-> sequence_map,
     config_paths |-> <<Host.conf_path>>, config_overrides |-> <<>>]

\* getActions(): (group, action, summary), in the order of its sorted().
Actions ==
    << <<Host.tab, Host.goto_tab, Host.doc_goto>>,
       <<Host.tab, Host.next_tab, Host.doc_next>>,
       <<Host.tab, Host.previous_tab, Host.doc_prev>>,
       <<Host.mouse, Host.mouse_selection, Host.doc_mouse>> >>

\* IssueData(): its single-letter attributes, which /etc/issue may name.
IssueData ==
    [c \in {115, 110, 114, 118, 109, 111, 100, 116, 108, 98, 117, 85} |->
        CASE c = 115 -> Host.id_s      \* s: uname sysname
          [] c = 110 -> Host.host      \* n: uname nodename
          [] c = 114 -> Host.id_r      \* r: uname release
          [] c = 118 -> Host.id_v      \* v: uname version
          [] c = 109 -> Host.id_m      \* m: uname machine
          [] c = 111 -> Host.host      \* o: socket.gethostname()
          [] c = 100 -> Host.id_d      \* d: the date
          [] c = 116 -> Host.id_t      \* t: the time
          [] c = 108 -> Host.tty       \* l: the tty name
          [] c = 98  -> Host.id_b      \* b: the baud rate
          [] c = 117 -> Host.id_u      \* u: the number of users
          [] c = 85  -> Host.id_U]     \* U: the same with ' user(s)'

Sys ==
    [version |-> Host.version, uname |-> Host.uname, is_macos |-> FALSE,
     is_wayland |-> TRUE, frozen |-> FALSE, kitty_exe |-> Host.kitty_exe,
     kitty_base_dir |-> Host.base_dir, extensions_dir |-> Host.ext_dir,
     shell_path |-> Host.shell_path, issue |-> Host.issue, lsb |-> Host.lsb,
     idata |-> IssueData,
     environ |-> {<<Host.e_HOME, Host.ev_home>>, <<Host.e_LANG, Host.ev_C>>,
                  <<Host.e_LC_ALL, Host.ev_C>>, <<Host.e_PATH, Host.ev_path>>},
     actions |-> Actions]

FileStates == {"absent", "readable", "open_fails", "read_fails"}
Hosts == [issue : FileStates \cup {"idata_fails"}, lsb : FileStates]
PlainHost == [issue |-> "readable", lsb |-> "readable"]

-----------------------------------------------------------------------------
(* The entry points: main (config.py:510-512), handle_result (514-518) *)

NoReport == [error |-> "none", raw |-> <<>>, text |-> <<>>, a2k |-> <<>>,
             shown |-> <<>>, mouse |-> <<>>, keys |-> <<>>]
NoTable  == [a |-> <<>>, fmt |-> <<>>, rows |-> <<>>]
NoSorting == [input |-> {}, order |-> <<>>]

Init ==
    /\ cmdArgs = CmdArgs
    /\ action2key = <<>>
    /\ pc = "parse"
    /\ runs = 1
    /\ opts = DefaultOptions
    /\ host = [issue |-> "absent", lsb |-> "absent"]
    /\ report = NoReport
    /\ table = NoTable
    /\ sorting = NoSorting

\* parser.parse_args(args[1:], cmdArgs) stores one switch of the command line.
\* Every destination is already an attribute (or a property) of cmdArgs, so
\* argparse writes no default: only the switches given are stored.
ParseSwitch(S) ==
    /\ pc = "parse"
    /\ \E sw \in S : cmdArgs' = setattr(cmdArgs, sw[1], sw[2])
    /\ UNCHANGED <<action2key, pc, runs, opts, host, report, table, sorting>>

\* cmdArgs.resolveParts(), the last statement of parseArgs.
ResolveParts ==
    /\ pc = "parse"
    /\ cmdArgs' = resolveParts(cmdArgs)
    /\ pc' = "resolved"
    /\ UNCHANGED <<action2key, runs, opts, host, report, table, sorting>>

\* debug_config(opts) after parseArgs, for options o of O on a host h of H.
\* The report keeps the reverse index the call leaves in action2key.
DebugConfig(O, H) ==
    /\ pc = "resolved"
    /\ \E o \in O, h \in H :
          /\ report' = debug_config(o, DefaultOptions, h, Sys, action2key)
          /\ opts' = o
          /\ host' = h
    /\ action2key' = report'.a2k
    /\ pc' = "done"
    /\ UNCHANGED <<cmdArgs, runs, table, sorting>>

\* parseArgs alone, over every switch it declares.
NextArgs == ParseSwitch(Switches(Dests)) \/ ResolveParts

SpecArgs == Init /\ [][NextArgs]_vars

-----------------------------------------------------------------------------
(* The mapping differ inside a report: key maps of up to MaxKeys bindings *)

MaxKeys == 2

KeyTriggers == {Host.k_a, Host.k_ctrl_a, Host.k_shift_a, Host.k_ctrl_b}
ActionStrings == {Host.next_tab, Host.previous_tab, Host.goto_tab_1}

Keymaps ==
    UNION {[D -> ActionStrings] :
             D \in {X \in SUBSET KeyTriggers : Cardinality(X) <= MaxKeys}}
SequenceMaps == {EmptyMap, DefaultSequenceMap}
Mousemaps ==
    {DefaultMousemap,
     Map2(Host.m_left, Host.mouse_selection_extend, Host.m_shift_left, Host.mouse_selection_normal)}

\* A font size that is not the built-in one, so that the option differ has a
\* changed field in every mode.
LargerFont ==
    OptionValues(OptVal("color", Host.v_black, Host.bg_black), OptVal("scalar", Host.v_12, <<>>),
                 OptVal("dict", Host.v_empty_dict, <<>>))

MapOptions ==
    {Options(LargerFont, mm, km, sm) :
        mm \in Mousemaps, km \in Keymaps, sm \in SequenceMaps}

MapSwitches ==
    {<<"diff", PyTrue>>, <<"deleted", PyFalse>>, <<"keys", PyTrue>>, <<"mouse", PyTrue>>}

NextMaps ==
    \/ ParseSwitch(MapSwitches)
    \/ ResolveParts
    \/ DebugConfig(MapOptions, {PlainHost})

SpecMaps == Init /\ [][NextMaps]_vars

-----------------------------------------------------------------------------
(* The sort of the triggers on its own: sets of up to MaxTriggers triggers *)

MaxTriggers == 3


\* Trigger representations as human_repr writes them: keys with and without
\* modifiers, key sequences, the key '+', mouse events.
TriggerReprs ==
    {Host.k_a, Host.k_ctrl_a, Host.k_shift_a, Host.k_ctrl_shift_a, Host.k_b, Host.k_ctrl_b,
     Host.k_a_b, Host.k_ctrl_a_b, Host.k_plus, Host.k_ctrl_plus, Host.m_left, Host.m_ctrl_left}

\* The sort at the head of the loop of print_mapping_changes, for a set of
\* triggers.
SortTriggers ==
    /\ pc = "parse"
    /\ \E S \in {X \in SUBSET TriggerReprs : Cardinality(X) <= MaxTriggers} :
          sorting' = [input |-> S, order |-> SortedTriggers(S)]
    /\ pc' = "done"
    /\ UNCHANGED <<cmdArgs, action2key, runs, opts, host, report, table>>

NextSort == SortTriggers

SpecSort == Init /\ [][NextSort]_vars

-----------------------------------------------------------------------------
(* The option differ inside a report: every value of three options *)

OptOptions ==
    {Options(OptionValues(bg, size, symbols), mm, DefaultKeymap, DefaultSequenceMap) :
        bg \in Backgrounds, size \in FontSizes, symbols \in SymbolMaps, mm \in Mousemaps}

OptSwitches ==
    {<<"diff", PyTrue>>, <<"config", PyTrue>>, <<"config", PyFalse>>, <<"colors", PyTrue>>}

NextOpts ==
    \/ ParseSwitch(OptSwitches)
    \/ ResolveParts
    \/ DebugConfig(OptOptions, {PlainHost})

SpecOpts == Init /\ [][NextOpts]_vars

-----------------------------------------------------------------------------
(* The info section on every state of /etc/issue and /etc/lsb-release *)

FileOptions == {Options(LargerFont, DefaultMousemap, DefaultKeymap, DefaultSequenceMap)}

FileSwitches == {<<"info", PyTrue>>, <<"info", PyFalse>>, <<"diff", PyTrue>>}

NextFiles ==
    \/ ParseSwitch(FileSwitches)
    \/ ResolveParts
    \/ DebugConfig(FileOptions, Hosts)

SpecFiles == Init /\ [][NextFiles]_vars

-----------------------------------------------------------------------------
(* Up to MaxRuns reports in one process: handle_result called again *)

MaxRuns == 2

RunOptions ==
    {Options(LargerFont, DefaultMousemap, km, DefaultSequenceMap) :
        km \in {DefaultKeymap, EmptyMap, Map2(Host.k_a, Host.next_tab, Host.k_ctrl_a, Host.previous_tab)}}

RunSwitches == {<<"actions", PyTrue>>, <<"keys", PyTrue>>, <<"diff", PyTrue>>}

\* The next call of handle_result in the same process: the module globals
\* cmdArgs and action2key are as the last call left them.
NextRun ==
    /\ pc = "done"
    /\ runs < MaxRuns
    /\ runs' = runs + 1
    /\ pc' = "parse"
    /\ UNCHANGED <<cmdArgs, action2key, opts, host, report, table, sorting>>

NextRuns ==
    \/ ParseSwitch(RunSwitches)
    \/ ResolveParts
    \/ DebugConfig(RunOptions, {PlainHost})
    \/ NextRun

SpecRuns == Init /\ [][NextRuns]_vars

-----------------------------------------------------------------------------
(* Plain mode: reports with and without --plain and --links *)

\* Options that differ from the built-in ones in every kind of value and in
\* every category of binding, and options that differ in nothing.
PlainOptions ==
    {Options(OptionValues(OptVal("color", Host.v_white, Host.bg_white),
                          OptVal("scalar", Host.v_12, <<>>),
                          OptVal("dict", Host.v_symbol_dict, <<Host.v_symbol_entry>>)),
             Map2(Host.m_left, Host.mouse_selection_extend, Host.m_shift_left, Host.mouse_selection_normal),
             Map3(Host.k_a, Host.next_tab, Host.k_ctrl_a, Host.previous_tab, Host.k_shift_a, Host.goto_tab_1),
             DefaultSequenceMap),
     Options(DefaultValues, DefaultMousemap, DefaultKeymap, DefaultSequenceMap)}

PlainSwitches ==
    {<<"plain", PyTrue>>, <<"links", PyTrue>>, <<"links", PyFalse>>, <<"diff", PyTrue>>,
     <<"deleted", PyFalse>>, <<"actions", PyTrue>>, <<"info", PyFalse>>}

NextPlain ==
    \/ ParseSwitch(PlainSwitches)
    \/ ResolveParts
    \/ DebugConfig(PlainOptions, {PlainHost})

SpecPlain == Init /\ [][NextPlain]_vars

-----------------------------------------------------------------------------
(* formatTable on its own: the tables and column formats it is given *)

MaxRows == 2

Cells  == {<<>>, Host.ab, Host.go_1}

JustFns == {"nojust", "ljust", "rjust", "center", "formatConf", "formatAction"}
Justifying == JustFns \ {"nojust"}

\* The formats of a first column: every justFn, plain or coloured, two indents.
ColFmts == {TabFmt(i, j, f) : i \in {0, 2}, j \in JustFns, f \in {"nofmt", "yellow"}}
\* The formats of a last column, as the source's tables end: TabFmt(), or
\* TabFmt(fmtFn=dim, indent=3).
LastFmts == {TabFmt(0, "nojust", "nofmt"), TabFmt(3, "nojust", "dim")}
FmtLists == {<<c1, c2>> : c1 \in ColFmts, c2 \in LastFmts}

\* The rectangular tables of two columns with at most MaxRows rows.
Tables == UNION {[1..n -> Cells \X Cells] : n \in 0..MaxRows}

\* formatTable(a, fmt) called with the selection state as resolved.
FormatTable ==
    /\ pc = "resolved"
    /\ \E a \in Tables, fmt \in FmtLists :
          table' = [a |-> a, fmt |-> fmt, rows |-> formatTable(a, fmt)]
    /\ pc' = "done"
    /\ UNCHANGED <<cmdArgs, action2key, runs, opts, host, report, sorting>>

NextTable ==
    \/ ParseSwitch(Switches({"links", "plain"}))
    \/ ResolveParts
    \/ FormatTable

SpecTable == Init /\ [][NextTable]_vars

-----------------------------------------------------------------------------
(* Claims *)

\* C1: after any sequence of switches, resolveParts leaves every part strictly
\* True or False, and calling resolveParts a second time changes no attribute.
C1_ResolveTotalIdempotent ==
    pc = "resolved" =>
        /\ \A a \in Parts : cmdArgs[a] \in {PyTrue, PyFalse}
        /\ resolveParts(cmdArgs) = cmdArgs

\* C1 witness: a resolution in diff mode that filled the unset parts with True
\* beside one part explicitly off.
C1_Witness ==
    /\ pc = "resolved"
    /\ cmdArgs.diff = PyTrue /\ cmdArgs.empty = PyFalse
    /\ cmdArgs.colors = PyFalse /\ cmdArgs.info = PyTrue /\ cmdArgs.actions = PyTrue

\* What resolveParts is specified to do with the parts of a selection state.
C2_Expected(before, a) ==
    IF before[a] # PyNone THEN before[a]
    ELSE IF \E b \in Parts : before[b] = PyTrue THEN PyFalse
    ELSE PyTrue

\* C2: resolveParts keeps every explicitly set part and fills the unset ones:
\* with False if some part is explicitly True, else with True.
C2_ResolveRule ==
    [][(pc = "parse" /\ pc' = "resolved") =>
          \A a \in Parts : cmdArgs'[a] = C2_Expected(cmdArgs, a)]_vars

\* C2 witness: resolved from an explicit True with unset parts filled False,
\* which only the first branch of the rule produces together with info True.
C2_Witness ==
    /\ pc = "resolved"
    /\ cmdArgs.info = PyTrue /\ cmdArgs.keys = PyFalse /\ cmdArgs.diff = PyFalse
    /\ cmdArgs.env = PyTrue /\ cmdArgs.mouse = PyFalse

RECURSIVE UnstyledFrom(_, _, _)
\* s from place i on without its SGR sequences (ESC [ ... m) and its OSC-8
\* hyperlink sequences (ESC ] ... ESC \), appended to acc: the text up to
\* the next sequence, then the text after the end of that sequence.  A
\* sequence that nothing ends runs to the end of s.
UnstyledFrom(s, i, acc) ==
    LET n == Len(s)
        starts == {j \in i..(n - 1) : s[j] = ESC /\ s[j + 1] \in {91, 93}}
    IN  IF starts = {} THEN acc \o SubSeq(s, i, n)
        ELSE LET j == SetMin(starts)
                 ends == IF s[j + 1] = 91
                         THEN {e \in (j + 2)..n : s[e] = LOWER_M}
                         ELSE {e \in (j + 3)..n : s[e - 1] = ESC /\ s[e] = 92}
             IN  IF ends = {} THEN acc \o SubSeq(s, i, j - 1)
                 ELSE UnstyledFrom(s, SetMin(ends) + 1, acc \o SubSeq(s, i, j - 1))

\* The text a terminal shows for s.
Unstyled(s) == UnstyledFrom(s, 1, <<>>)

\* The width of column c of a table: the longest raw cell.
C7_Width(a, c) == SetMax({Len(a[r][c]) : r \in 1..Len(a)})

\* The unstyled cell a column format is specified to give: the indent, then
\* the raw cell padded to the column's width by a justifying function.
C7_PlainCell(val, fmt1, width) ==
    LET pad == width - Len(val)
        body == CASE fmt1.justFn = "nojust" -> val
                  [] fmt1.justFn = "rjust"  -> Spaces(pad) \o val
                  [] fmt1.justFn = "center" -> center(width, val)
                  [] OTHER                  -> val \o Spaces(pad)
    IN  Spaces(fmt1.indent) \o body

\* C7: formatTable gives nothing for an empty table; otherwise one entry per
\* row, in order, whose unstyled text is, column by column, the indent and the
\* raw cell justified to the longest raw cell of the column: indent + width
\* characters for every justifying column, whatever the style functions.
C7_FormatTableWidths ==
    LET a == table.a
        fmt == table.fmt
        rows == table.rows
    IN  /\ (a = <<>>) => (rows = <<>>)
        /\ (a # <<>>) =>
              /\ Len(rows) = Len(a)
              /\ \A r \in 1..Len(a) :
                    /\ rows[r].row = a[r]
                    /\ Unstyled(rows[r].txt) =
                          Concat([c \in 1..Len(fmt) |->
                                    C7_PlainCell(a[r][c], fmt[c], C7_Width(a, c))])
                    /\ Len(Unstyled(rows[r].txt)) =
                          fmt[1].indent + fmt[2].indent
                          + (IF fmt[1].justFn \in Justifying
                             THEN C7_Width(a, 1) ELSE Len(a[r][1]))
                          + Len(a[r][2])

\* C7 witness: a table of two rows with cells of different lengths, its first
\* column formatted by formatAction with hyperlinks on and coloured.
C7_Witness ==
    /\ Len(table.a) = 2
    /\ table.a[1][1] = Host.go_1 /\ table.a[2][1] = Host.ab
    /\ table.fmt[1] = TabFmt(2, "formatAction", "yellow")
    /\ cmdArgs.links = PyTrue
    /\ Len(table.rows) = 2
    /\ Len(table.rows[2].txt) > Len(Unstyled(table.rows[2].txt))


\* C3: the mapping differ partitions the triggers.  For the current mapping C
\* and the default mapping D of the mouse map and of the key map, added is
\* keys(C) \ keys(D), removed is keys(D) \ keys(C), changed is the common
\* triggers whose actions differ; these three and the unchanged triggers are
\* pairwise disjoint and cover keys(C) and keys(D); the loop visits every
\* trigger once and gives it the glyph of its category.
C3_Categories(C, D) ==
    [A |-> {k \in DOMAIN C : k \notin DOMAIN D},
     R |-> {k \in DOMAIN D : k \notin DOMAIN C},
     Ch |-> {k \in DOMAIN C : k \in DOMAIN D /\ C[k] # D[k]},
     U |-> {k \in DOMAIN C : k \in DOMAIN D /\ C[k] = D[k]}]

C3_Glyph(cat, k) ==
    IF k \in cat.A THEN <<32, 32, 65, 32, 32>>
    ELSE IF k \in cat.Ch THEN <<32, 32, 67, 32, 32>>
    ELSE IF k \in cat.R THEN <<32, 32, 45, 32, 32>>
    ELSE <<32, 32, 32, 32, 32>>

C3_PartitionOf(m, C, D) ==
    LET cat == C3_Categories(C, D)
        all == DOMAIN C \cup DOMAIN D
    IN  /\ m.added = cat.A /\ m.removed = cat.R /\ m.changed = cat.Ch
        /\ cat.A \cap cat.R = {} /\ cat.A \cap cat.Ch = {} /\ cat.A \cap cat.U = {}
        /\ cat.R \cap cat.Ch = {} /\ cat.R \cap cat.U = {} /\ cat.Ch \cap cat.U = {}
        /\ cat.A \cup cat.R \cup cat.Ch \cup cat.U = all
        /\ Len(m.rows) = Cardinality(all)
        /\ {m.rows[i].k : i \in 1..Len(m.rows)} = all
        /\ \A i \in 1..Len(m.rows) : m.rows[i].flags = C3_Glyph(cat, m.rows[i].k)

\* The key map as compare_opts hands it to the differ: the single keys and
\* the key sequences, a sequence written with ' > ' between its keys.
C3_Sequences(o) ==
    UNION {{<<s, r>> : r \in DOMAIN o.sequence_map[s]} : s \in DOMAIN o.sequence_map}

C3_Repr(sr) == sr[1] \o <<32, 62, 32>> \o sr[2]

C3_KeysOf(o) ==
    LET seqs == C3_Sequences(o)
    IN  [k \in DOMAIN o.keymap \cup {C3_Repr(sr) : sr \in seqs} |->
            IF \E sr \in seqs : C3_Repr(sr) = k
            THEN LET sr == CHOOSE x \in seqs : C3_Repr(x) = k
                 IN  o.sequence_map[sr[1]][sr[2]]
            ELSE o.keymap[k]]

C3_MappingPartition ==
    (pc = "done" /\ report.error = "none") =>
        /\ C3_PartitionOf(report.mouse, opts.mousemap, DefaultOptions.mousemap)
        /\ C3_PartitionOf(report.keys, C3_KeysOf(opts), C3_KeysOf(DefaultOptions))

\* A report whose key map has a trigger of each of the four categories.
C3_Witness ==
    /\ pc = "done" /\ report.error = "none"
    /\ report.keys.added # {} /\ report.keys.removed # {} /\ report.keys.changed # {}
    /\ \E k \in DOMAIN C3_KeysOf(opts) :
          k \in DOMAIN C3_KeysOf(DefaultOptions)
          /\ C3_KeysOf(opts)[k] = C3_KeysOf(DefaultOptions)[k]

\* C4: a trigger bound in both mappings to different actions gets a row with
\* the 'C' glyph, the current action in the action column and the default
\* action in the parenthetical column, and is neither added nor removed; a
\* removed trigger gets a blank action column and the default action in the
\* parenthetical.
C4_Parenthetical(action) == <<32, 32, 9, 40>> \o formatAction(0, action) \o <<41>>

C4_RowsOf(m, C, D) ==
    \A i \in 1..Len(m.rows) :
        LET row == m.rows[i]
            k == row.k
        IN  row.listed =>
              /\ (k \in DOMAIN C /\ k \in DOMAIN D /\ C[k] # D[k]) =>
                    /\ row.flags = <<32, 32, 67, 32, 32>>
                    /\ row.v = formatAction(0, C[k])
                    /\ row.orig = C4_Parenthetical(D[k])
                    /\ k \notin m.added /\ k \notin m.removed
              /\ (k \in DOMAIN D /\ k \notin DOMAIN C) =>
                    /\ row.v = <<32, 32, 32, 32, 32>>
                    /\ row.orig = C4_Parenthetical(D[k])

C4_ChangedRowShowsDefault ==
    (pc = "done" /\ report.error = "none") =>
        /\ C4_RowsOf(report.mouse, opts.mousemap, DefaultOptions.mousemap)
        /\ C4_RowsOf(report.keys, C3_KeysOf(opts), C3_KeysOf(DefaultOptions))

\* C8: the triggers sorted by shortcutSortKey are the triggers given, each
\* once; those with the same bare key are contiguous whatever their
\* modifiers, and among them the modifier prefixes ascend.
C8_Key(t) == shortcutSplit(t)[2]
C8_Mod(t) == shortcutSplit(t)[1]

C8_KeyCentricSort ==
    pc = "done" =>
        LET o == sorting.order
            n == Len(o)
        IN  /\ n = Cardinality(sorting.input)
            /\ {o[i] : i \in 1..n} = sorting.input
            /\ \A i, j, k \in 1..n :
                  (i < j /\ j < k /\ C8_Key(o[i]) = C8_Key(o[k])) =>
                      C8_Key(o[j]) = C8_Key(o[i])
            /\ \A i, j \in 1..n :
                  (i < j /\ C8_Key(o[i]) = C8_Key(o[j])) =>
                      StrLess(C8_Mod(o[i]), C8_Mod(o[j]))

\* Two triggers of one key with different modifiers sorted together with a
\* trigger of another key.
C8_Witness ==
    /\ pc = "done"
    /\ \E i, j, k \in 1..Len(sorting.order) :
          /\ i # j
          /\ C8_Key(sorting.order[i]) = C8_Key(sorting.order[j])
          /\ C8_Mod(sorting.order[i]) # <<>> /\ C8_Mod(sorting.order[j]) # C8_Mod(sorting.order[i])
          /\ C8_Key(sorting.order[k]) # C8_Key(sorting.order[i])

\* C5: with the options, the mouse map and the key map all equal to the
\* built-in ones, a report in diff mode ends without an error, shows no
\* changed option field and lists no binding row.
C5_SameAsDefaults ==
    /\ opts.values = DefaultOptions.values
    /\ opts.mousemap = DefaultOptions.mousemap
    /\ opts.keymap = DefaultOptions.keymap
    /\ opts.sequence_map = DefaultOptions.sequence_map

C5_DiffOfDefaultsCompletes ==
    (pc = "done" /\ cmdArgs.diff = PyTrue /\ C5_SameAsDefaults) =>
        /\ report.error = "none"
        /\ \A i \in 1..Len(report.shown) : ~report.shown[i].changed
        /\ \A i \in 1..Len(report.mouse.rows) : ~report.mouse.rows[i].listed
        /\ \A i \in 1..Len(report.keys.rows) : ~report.keys.rows[i].listed

\* C9: whatever the state of /etc/issue and of /etc/lsb-release (absent,
\* readable, failing on open, failing on read), the report ends without an
\* error, and it is the report of a host where the failing files are absent.
C9_Omitted(h) ==
    [issue |-> IF h.issue \in {"open_fails", "read_fails"} THEN "absent" ELSE h.issue,
     lsb   |-> IF h.lsb \in {"open_fails", "read_fails"} THEN "absent" ELSE h.lsb]

C9_FileErrorsAbsorbed ==
    pc = "done" =>
        /\ report.error = "none"
        /\ report.raw = debug_config(opts, DefaultOptions, C9_Omitted(host), Sys, <<>>).raw

\* C10: the reverse index a report leaves holds only what the bindings of
\* the same run put there: every pair is a binding of the options of this
\* run, filed under the name of its action, and no pair is there twice.
C10_Bound(o, k, action) ==
    \/ k \in DOMAIN o.mousemap /\ o.mousemap[k] = action
    \/ k \in DOMAIN C3_KeysOf(o) /\ C3_KeysOf(o)[k] = action

C10_IndexOfThisRun ==
    (pc = "done" /\ report.error = "none") =>
        \A a \in DOMAIN action2key :
            /\ \A i \in 1..Len(action2key[a]) :
                  /\ C10_Bound(opts, action2key[a][i][1], action2key[a][i][2])
                  /\ a = actionName(action2key[a][i][2])
            /\ \A i, j \in 1..Len(action2key[a]) :
                  action2key[a][i] = action2key[a][j] => i = j

\* C6: a report made in plain mode, whatever the other switches (--links
\* among them), has no ESC character in the string returned, so no SGR and
\* no OSC-8 sequence; and that string is the text written with nothing but
\* its SGR sequences (ESC [ parameters m) taken out.
RECURSIVE C6_SgrEnd(_, _)
\* The place of the 'm' ending the parameters that start at j, 0 if none does.
C6_SgrEnd(s, j) ==
    IF j > Len(s) THEN 0
    ELSE IF s[j] = 109 THEN j
    ELSE IF s[j] \in 48..59 THEN C6_SgrEnd(s, j + 1)
    ELSE 0

C6_Styling(s) ==
    UNION {IF s[i] = 27 /\ i < Len(s) /\ s[i + 1] = 91 /\ C6_SgrEnd(s, i + 2) # 0
           THEN i..C6_SgrEnd(s, i + 2) ELSE {} : i \in 1..Len(s)}

C6_Unstyled(s) ==
    LET styling == C6_Styling(s)
        kept == SelectSeq([i \in 1..Len(s) |-> i], LAMBDA i : i \notin styling)
    IN  [j \in 1..Len(kept) |-> s[kept[j]]]

C6_PlainHasNoEscapes ==
    (pc = "done" /\ cmdArgs.plain = PyTrue /\ report.error = "none") =>
        /\ \A i \in 1..Len(report.text) : report.text[i] # 27
        /\ report.text = C6_Unstyled(report.raw)

\* A plain report of every part whose text had styling to lose.
C6_Witness ==
    /\ pc = "done" /\ cmdArgs.plain = PyTrue /\ report.error = "none"
    /\ \A a \in Parts : cmdArgs[a] = PyTrue
    /\ Len(report.text) > 0
    /\ Len(report.text) < Len(report.raw)

\* C11: the option fields that the loop of compare_opts takes never include
\* a binding-map field (keymap, sequence_map, mousemap, map, mouse_map); in
\* diff mode they are exactly the other fields whose value is not the
\* built-in one; without diff they are all the other fields, and a field has
\* the C marker if and only if its value is not the built-in one.
C11_NonBinding == {OptionFields[i] : i \in 1..Len(OptionFields)} \ ignored
C11_Differing(o) == {f \in C11_NonBinding : o.values[f] # DefaultOptions.values[f]}
C11_Shown == {report.shown[i].f : i \in 1..Len(report.shown)}

C11_ShownOptionFields ==
    (pc = "done" /\ report.error = "none") =>
        /\ C11_Shown \cap ignored = {}
        /\ cmdArgs.diff = PyTrue => C11_Shown = C11_Differing(opts)
        /\ cmdArgs.diff # PyTrue => C11_Shown = C11_NonBinding
        /\ \A i \in 1..Len(report.shown) :
              report.shown[i].changed <=> report.shown[i].f \in C11_Differing(opts)

\* C12: after the mouse map and the key map of a report have gone through
\* the mapping differ, the reverse index holds for every trigger that the
\* current maps bind exactly one pair (trigger, action string), filed under
\* the action string up to its first space, and holds nothing else, so no
\* pair of a removed trigger; whatever diff, deleted and the mouse and keys
\* parts are.
C12_Bound(o) ==
    {<<k, o.mousemap[k]>> : k \in DOMAIN o.mousemap}
        \cup {<<k, C3_KeysOf(o)[k]>> : k \in DOMAIN C3_KeysOf(o)}

C12_Count(p) ==
    IF actionName(p[2]) \in DOMAIN action2key
    THEN Cardinality({i \in 1..Len(action2key[actionName(p[2])]) :
                         action2key[actionName(p[2])][i] = p})
    ELSE 0

C12_IndexHoldsCurrentBindings ==
    (pc = "done" /\ report.error = "none") =>
        /\ \A p \in C12_Bound(opts) : C12_Count(p) = 1
        /\ \A a \in DOMAIN action2key :
              \A i \in 1..Len(action2key[a]) :
                  /\ action2key[a][i] \in C12_Bound(opts)
                  /\ a = actionName(action2key[a][i][2])

====
